---------------------------- MODULE Spec2Model ----------------------------
(***************************************************************************)
(* Model of the hk32f0301mxxc-hal clock configurator (src/src/rcc.rs), of  *)
(* its analog conversion engine (src/src/adc.rs), of its count-down timer  *)
(* (src/src/timers.rs) and of its serial receiver (src/src/serial.rs).     *)
(*                                                                         *)
(* 32-bit register and factory words are kept as two 16-bit halves         *)
(* [hi, lo], so that every mask and shift of the source is computed on     *)
(* numbers TLC can hold.  Every register write the code performs is        *)
(* appended to the history variable log, in program order.                 *)
(***************************************************************************)
EXTENDS Integers, Sequences, FiniteSets, TLC

VARIABLES
    clock_src,   \* CFGR.clock_src: <<"HSI">>, <<"LSI">> or <<"HSE", freq>>
    calls,       \* number of selector calls made on the builder so far
    last_sel,    \* the selection made by the last builder call (history)
    overwrote,   \* a builder call replaced a different selection (history)
    pc,          \* position of the program in configure/freeze
    rcc,         \* RCC register fields
    flash,       \* FLASH register fields
    pmu,         \* PMU trimming registers, by address name
    factory,     \* the four factory calibration words (read-only memory)
    sw_to,       \* enable_clock's local sw_to
    clocks,      \* the Clocks value freeze returned, or NoClocks
    latency0,    \* flash latency programmed when freeze was entered (history)
    cr0,         \* RCC_CR trimming bits when freeze was entered (history)
    log,         \* every register write / successful poll, in order (history)
    sample_time, \* Adc.sample_time
    align,       \* Adc.align
    adc,         \* ADC register fields (Adc.rb)
    apc,         \* position of the program in the Adc operations
    stack,       \* return positions of the calls in progress
    chan,        \* read: PIN::channel()
    res,         \* convert: the value it returns
    prev_cfg,    \* read_vdda: prev_cfg
    was_enabled, \* read_vdda: the result of vref.is_enabled(adc)
    vdda,        \* read_abs_mv: vdda
    mv_chan,     \* read_abs_mv: PIN::channel() of its pin
    saved,       \* StoredConfig the caller got from save_cfg, or NoConfig
    at_save,     \* {sample_time, align} when save_cfg was called (history)
    last_op,     \* the last operation that returned to the caller (history)
    outcome,     \* variant of the nb::Result the last read returned, or "none"
    pre_cfg,     \* {sample_time, align} when that operation was called (history)
    ret,         \* the value that operation returned
    alog,        \* register accesses of the operation in progress (history)
    tim_id,      \* which TIM peripheral the Timer owns, or "none"
    tim,         \* TIM register fields (Timer.tim)
    tpc,         \* position of the program in Timer::timN / start
    pclk,        \* Timer.clocks.pclk().0
    timeout,     \* Timer.timeout.0
    count,       \* start: the frequency passed by the caller
    ticks,       \* start: ticks
    psc,         \* start: psc
    tlog,        \* register writes of the timer operation in progress (history)
    uart,        \* UART status flags and receive data register
    isr,         \* Serial::read: the status word it read
    rx,          \* the nb::Result the last Serial::read returned, or <<"none">>
    rx_seq       \* parity of the number of Serial::read calls (history)

rccVars == <<clock_src, calls, last_sel, overwrote, pc, rcc, flash, pmu, factory,
             sw_to, clocks, latency0, cr0, log>>

adcVars == <<sample_time, align, adc, apc, stack, chan, res, prev_cfg,
             was_enabled, vdda, mv_chan, saved, at_save, last_op, pre_cfg, ret, alog,
             outcome>>

timVars == <<tim_id, tim, tpc, pclk, timeout, count, ticks, psc, tlog>>

serVars == <<uart, isr, rx, rx_seq>>

vars == <<rccVars, adcVars, timVars, serVars>>

-----------------------------------------------------------------------------
(* Bounds of the model *)

\* how many selector calls (hsi/lsi/hse) the builder receives before freeze
MaxBuilderCalls == 2

-----------------------------------------------------------------------------
(* Constants of rcc.rs *)

HSI == 48000000
LSI == 60000

\* frequencies a caller hands to hse(): around both wait-state thresholds,
\* the extremes, and the largest value TLC's integers hold (freq is a u32)
HseFreqs == {0, 8000000, 16000000, 16000001, 32000000, 32000001, 2147483647}

SysClkSource == {<<"HSI">>, <<"LSI">>} \cup {<<"HSE", f>> : f \in HseFreqs}

NoClocks == [hclk |-> -1, pclk |-> -1, sysclk |-> -1]

-----------------------------------------------------------------------------
(* 32-bit words as halves, and the bit operations the loader uses *)

Word(h, l) == [hi |-> h, lo |-> l]

RECURSIVE BitAnd(_, _)
BitAnd(a, b) ==
    IF a = 0 \/ b = 0 THEN 0
    ELSE (IF a % 2 = 1 /\ b % 2 = 1 THEN 1 ELSE 0) + 2 * BitAnd(a \div 2, b \div 2)

RECURSIVE BitOr(_, _)
BitOr(a, b) ==
    IF a = 0 THEN b
    ELSE IF b = 0 THEN a
    ELSE (IF a % 2 = 1 \/ b % 2 = 1 THEN 1 ELSE 0) + 2 * BitOr(a \div 2, b \div 2)

\* v & 0xFFFF
Lo16(v) == v.lo
\* (v >> 16) & 0xFFFF
Hi16(v) == v.hi
\* (v >> (8*n)) & 0xFF, n = 0..3
Byte(v, n) ==
    CASE n = 0 -> v.lo % 256
      [] n = 1 -> v.lo \div 256
      [] n = 2 -> v.hi % 256
      [] n = 3 -> v.hi \div 256


-----------------------------------------------------------------------------
(* Factory calibration words the loader may find at 0x1ffff10c..0x1ffff11c *)

\* oscillator trim: complement-redundant, erased flash, one corrupted bit
HsiWords == {Word(57191, 8344), Word(65535, 65535), Word(57191, 8345)}
\* band-gap trim: complement-redundant, erased flash
BgpWords == {Word(60148, 5387), Word(65535, 65535)}
\* LDO trim: complement-redundant, erased flash
LdoWords == {Word(48042, 17493), Word(65535, 65535)}
\* low-power LDO trim: complement-redundant; byte 1 and byte 3 complementary
\* but the halves not; erased flash
LpldoWords == {Word(42435, 23100), Word(42240, 23040), Word(65535, 65535)}

\* RCC_CR bits other than the on/ready flags, as found at entry: the trimming
\* field empty, or every bit of the low half set
CrResetValues == {Word(0, 0), Word(0, 65532)}

\* FLASH_ACR.LATENCY as found at entry
LatencyCodes == {0, 1, 2}

-----------------------------------------------------------------------------
(* rcc.rs: pure functions *)

\* get_freq without its LSI arm (LSI falls through to the default)
get_freq_NoLsiArm(c_src) ==
    CASE c_src[1] = "HSE" -> c_src[2]
      [] OTHER -> HSI

\* get_freq
get_freq(c_src) ==
    CASE c_src[1] = "HSE" -> c_src[2]
      [] c_src[1] = "LSI" -> LSI
      [] OTHER -> HSI

\* set_flash_wait comparing with < instead of <=
FlashWaitCode_Strict(freq) ==
    IF freq < 16000000 THEN 0
    ELSE IF freq < 32000000 THEN 1
    ELSE 2

\* the latency code set_flash_wait writes to FLASH_ACR for freq
FlashWaitCode(freq) ==
    IF freq <= 16000000 THEN 0
    ELSE IF freq <= 32000000 THEN 1
    ELSE 2

\* the SW/SWS code enable_clock assigns to sw_to for a source
SwCode(c_src) ==
    CASE c_src[1] = "HSE" -> 1
      [] c_src[1] = "HSI" -> 0
      [] c_src[1] = "LSI" -> 3

\* the validity test of hsi_trimming_value_load and of the BGP and LDO
\* branches of pmu_trimming_value_load:
\* (v & 0xFFFF) == 0xFFFF - ((v >> 16) & 0xFFFF)
HalfwordCheck(v) == Lo16(v) = 65535 - Hi16(v)

\* the LPLDO branch testing the halves like the other branches
LpldoCheck_Halfword(v) == Lo16(v) = 65535 - Hi16(v)

\* the validity test of the LPLDO branch:
\* ((v >> 8) & 0xFF) == 0xFF - ((v >> 24) & 0xFF)
LpldoCheck(v) == Byte(v, 1) = 255 - Byte(v, 3)

\* the value hsi_trimming_value_load writes to RCC_CR
HsiTrimmedCr(cr, hsivalue) ==
    LET temp0   == Word(cr.hi, BitAnd(cr.lo, 49155))      \* & 0xffffc003
        hsical  == Byte(hsivalue, 0) \div 4               \* (v & 0xFF) >> 2
        hsitrim == Byte(hsivalue, 1)                      \* (v >> 8) & 0xFF
        temp1   == Word(temp0.hi, BitOr(temp0.lo, hsitrim * 256))
    IN  Word(temp1.hi, BitOr(temp1.lo, hsical * 4))

\* an unlock window that re-locks with a single write
KeyWindow_RelockOnce(payload) ==
    <<  <<"w", "PMU_KEY", 6533>>, <<"w", "PMU_KEY", 1065>> >>
    \o payload
    \o << <<"w", "PMU_KEY", 65535>> >>

\* the sequence of writes of one unlock window of pmu_trimming_value_load
KeyWindow(payload) ==
    <<  <<"w", "PMU_KEY", 6533>>, <<"w", "PMU_KEY", 1065>> >>
    \o payload
    \o << <<"w", "PMU_KEY", 65535>>, <<"w", "PMU_KEY", 65535>> >>

\* the writes of pmu_trimming_value_load after PWREN, in program order
PmuTrimWrites(bgpvalue, ldovalue, lpldovalue) ==
    LET lbgp         == Byte(bgpvalue, 1) % 32
        mbgp         == Byte(bgpvalue, 0) % 32
        ldoruntemp   == Byte(ldovalue, 0)
        ldolprtemp   == Byte(ldovalue, 1)
        lpldolprtemp == Byte(lpldovalue, 1)
        bgptemp      == BitOr(lbgp * 256, mbgp)
    IN  (IF HalfwordCheck(bgpvalue)
            THEN KeyWindow(<< <<"w", "PMU_BGP", bgptemp>> >>)
            ELSE << >>)
        \o
        (IF HalfwordCheck(ldovalue)
            THEN KeyWindow(<< <<"w", "PMU_LDO_RUN", ldoruntemp>>,
                              <<"w", "PMU_LDO_LPR", ldolprtemp>> >>)
            ELSE << >>)
        \o
        (IF LpldoCheck(lpldovalue)
            THEN KeyWindow(<< <<"w", "PMU_LPLDO_LPR", lpldolprtemp>> >>)
            ELSE << >>)

PmuRegs == {"PMU_KEY", "PMU_BGP", "PMU_LDO_RUN", "PMU_LDO_LPR", "PMU_LPLDO_LPR"}

\* the register file after a sequence of writes
RECURSIVE ApplyWrites(_, _)
ApplyWrites(regs, ws) ==
    IF ws = << >> THEN regs
    ELSE ApplyWrites([regs EXCEPT ![Head(ws)[2]] = Head(ws)[3]], Tail(ws))

-----------------------------------------------------------------------------
(* State after the pre-init hook and RccExt::configure *)

RccAtEntry(cr, l, words) ==
    /\ clock_src = <<"HSI">>
    /\ calls = 0
    /\ last_sel = <<"HSI">>
    /\ overwrote = FALSE
    /\ pc = "builder"
    /\ cr0 = cr
    /\ rcc = [hsion |-> TRUE, hsirdy |-> TRUE,
              extclkon |-> FALSE, extclkrdy |-> FALSE,
              lsion |-> FALSE, lsirdy |-> FALSE,
              cr |-> cr, sw |-> 0, sws |-> 0,
              hpre |-> 0, ppre |-> 0,
              extclk_sel |-> 0, flitfclk_pre |-> 0, pwren |-> FALSE]
    /\ latency0 = l
    /\ flash = [latency |-> l, int_vec_offset |-> 0]
    /\ pmu = [r \in PmuRegs |-> 0]
    /\ factory = words
    /\ sw_to = 0
    /\ clocks = NoClocks
    /\ log = << >>

-----------------------------------------------------------------------------
(* adc.rs: types, conversions and pure functions *)

\* enum AdcSampleTime
SampleTimes == {"T1", "T7", "T13", "T28", "T41", "T55", "T71", "T239"}

\* enum AdcAlign
Aligns == {"Left", "Right"}

\* AdcSampleTime::default / AdcAlign::default
AdcSampleTime_default == "T239"
AdcAlign_default == "Right"

\* impl From<AdcSampleTime> for u8
SmpBits(val) ==
    CASE val = "T1" -> 0
      [] val = "T7" -> 1
      [] val = "T13" -> 2
      [] val = "T28" -> 3
      [] val = "T41" -> 4
      [] val = "T55" -> 5
      [] val = "T71" -> 6
      [] val = "T239" -> 7

\* impl From<AdcAlign> for bool
AlignBit(val) ==
    CASE val = "Left" -> TRUE
      [] val = "Right" -> FALSE

\* adc_pins!: the inputs that implement Channel<Adc>
AdcPins == {"PD5", "PD6", "PC4", "PD3", "PD2", "PD1", "PC6", "Vpmu", "VRef"}

\* a pin table in which PC6 is declared on the channel of PD1
channel_Shared(pin) ==
    CASE pin = "PD5" -> 0
      [] pin = "PD6" -> 1
      [] pin = "PC4" -> 2
      [] pin = "PD3" -> 3
      [] pin = "PD2" -> 4
      [] pin \in {"PD1", "PC6"} -> 5
      [] pin = "Vpmu" -> 7
      [] pin = "VRef" -> 8

\* Channel::channel() of each input
channel(pin) ==
    CASE pin = "PD5" -> 0
      [] pin = "PD6" -> 1
      [] pin = "PC4" -> 2
      [] pin = "PD3" -> 3
      [] pin = "PD2" -> 4
      [] pin = "PD1" -> 5
      [] pin = "PC6" -> 6
      [] pin = "Vpmu" -> 7
      [] pin = "VRef" -> 8

\* struct StoredConfig(AdcSampleTime, AdcAlign)
StoredConfig(st, al) == <<st, al>>

NoConfig == <<"none", "none">>

\* Adc::max_sample without its Left arm
max_sample_RightOnly(al) == 4095

\* Adc::max_sample
max_sample(al) ==
    CASE al = "Left" -> 65535
      [] al = "Right" -> 4095

\* 12-bit conversion results the converter may deliver
RawSamples == {0, 1, 16, 74, 1500, 4095}

\* value as u16
AsU16(value) == value % 65536

\* state after Adc::new
AdcNew ==
    /\ sample_time = AdcSampleTime_default
    /\ align = AdcAlign_default
    /\ adc = [aden |-> FALSE, addis |-> FALSE, adstart |-> FALSE, adstp |-> FALSE,
              adrdy |-> FALSE, eoc |-> FALSE, dr |-> 0, align |-> FALSE,
              vrefen |-> FALSE, cfgr2 |-> 2]
    /\ apc = "idle"
    /\ stack = << >>
    /\ chan = 0
    /\ res = 0
    /\ prev_cfg = NoConfig
    /\ was_enabled = FALSE
    /\ vdda = 0
    /\ mv_chan = 0
    /\ saved = NoConfig
    /\ at_save = NoConfig
    /\ last_op = "new"
    /\ outcome = "none"
    /\ pre_cfg = NoConfig
    /\ ret = 0
    /\ alog = << >>
-----------------------------------------------------------------------------
(* timers.rs and serial.rs: the peripherals before they are used *)

\* a TIM peripheral out of reset
TimAtReset == [cen |-> FALSE, cnt |-> 0, psc |-> 0, arr |-> 65535]

\* no Timer has been built yet
TimerNone ==
    /\ tim_id = "none"
    /\ tim = TimAtReset
    /\ tpc = "none"
    /\ pclk = 0
    /\ timeout = 0
    /\ count = 0
    /\ ticks = 0
    /\ psc = 0
    /\ tlog = << >>

\* the UART status bits Serial::read looks at
NoFlags == [pe |-> FALSE, fe |-> FALSE, nf |-> FALSE, ore |-> FALSE, rxne |-> FALSE]

\* a Serial on an idle line, nothing read yet
SerialNew ==
    /\ uart = [pe |-> FALSE, fe |-> FALSE, nf |-> FALSE, ore |-> FALSE, rxne |-> FALSE,
               rdr |-> 0]
    /\ isr = NoFlags
    /\ rx = <<"none">>
    /\ rx_seq = 0

-----------------------------------------------------------------------------
InitRcc ==
    /\ \E cr \in CrResetValues : \E l \in LatencyCodes :
          \E words \in [hsi : HsiWords, bgp : BgpWords, ldo : LdoWords, lpldo : LpldoWords] :
              RccAtEntry(cr, l, words)
    /\ AdcNew
    /\ TimerNone
    /\ SerialNew

-----------------------------------------------------------------------------
(* CFGR builder: hse / hsi / lsi *)

\* a builder whose selectors act only on the first call
Select_FirstWins(src) ==
    /\ pc = "builder"
    /\ calls < MaxBuilderCalls
    /\ clock_src' = IF calls = 0 THEN src ELSE clock_src
    /\ last_sel' = src
    /\ overwrote' = (overwrote \/ clock_src # src)
    /\ calls' = calls + 1
    /\ UNCHANGED <<pc, rcc, flash, pmu, factory, sw_to, clocks, latency0, cr0, log>>
    /\ UNCHANGED <<adcVars, timVars, serVars>>

\* self.clock_src = <the source of the method called>
Select(src) ==
    /\ pc = "builder"
    /\ calls < MaxBuilderCalls
    /\ clock_src' = src
    /\ last_sel' = src
    /\ overwrote' = (overwrote \/ clock_src # src)
    /\ calls' = calls + 1
    /\ UNCHANGED <<pc, rcc, flash, pmu, factory, sw_to, clocks, latency0, cr0, log>>
    /\ UNCHANGED <<adcVars, timVars, serVars>>

hse == \E f \in HseFreqs : Select(<<"HSE", f>>)

hsi == Select(<<"HSI">>)

lsi == Select(<<"LSI">>)

-----------------------------------------------------------------------------
(* CFGR::freeze, statement by statement *)

Goto(from, to) == pc = from /\ pc' = to

FreezeFrame ==
    /\ UNCHANGED <<clock_src, calls, last_sel, overwrote, factory, latency0, cr0>>
    /\ UNCHANGED <<adcVars, timVars, serVars>>

\* freeze, first statement: hsi_trimming_value_load(&mut self.rcc)
hsi_trimming_value_load ==
    /\ Goto("builder", "pmu_trim")
    /\ IF HalfwordCheck(factory.hsi)
          THEN LET temp == HsiTrimmedCr(rcc.cr, factory.hsi)
               IN  /\ rcc' = [rcc EXCEPT !.cr = temp]
                   /\ log' = Append(log, <<"w", "RCC_CR", temp>>)
          ELSE UNCHANGED <<rcc, log>>
    /\ UNCHANGED <<flash, pmu, sw_to, clocks>>
    /\ FreezeFrame

\* pmu_trimming_value_load(&mut self.rcc)
pmu_trimming_value_load ==
    /\ Goto("pmu_trim", "enable")
    /\ LET ws == PmuTrimWrites(factory.bgp, factory.ldo, factory.lpldo)
       IN  /\ rcc' = [rcc EXCEPT !.pwren = TRUE]
           /\ pmu' = ApplyWrites(pmu, ws)
           /\ log' = Append(log, <<"w", "RCC_APBENR1.PWREN", 1>>) \o ws
    /\ UNCHANGED <<flash, sw_to, clocks>>
    /\ FreezeFrame

\* enable_clock, HSE arm: cfgr4.extclk_sel <- 0
EnableHse_Sel ==
    /\ clock_src[1] = "HSE"
    /\ Goto("enable", "hse_on")
    /\ rcc' = [rcc EXCEPT !.extclk_sel = 0]
    /\ log' = Append(log, <<"w", "RCC_CFGR4.EXTCLK_SEL", 0>>)
    /\ UNCHANGED <<flash, pmu, sw_to, clocks>>
    /\ FreezeFrame

\* cr.extclkon <- on
EnableHse_On ==
    /\ Goto("hse_on", "osc_wait")
    /\ rcc' = [rcc EXCEPT !.extclkon = TRUE]
    /\ log' = Append(log, <<"w", "RCC_CR.EXTCLKON", 1>>)
    /\ UNCHANGED <<flash, pmu, sw_to, clocks>>
    /\ FreezeFrame

\* enable_clock, HSI arm: cr.hsion <- on
EnableHsi_On ==
    /\ clock_src[1] = "HSI"
    /\ Goto("enable", "hsi_pre")
    /\ rcc' = [rcc EXCEPT !.hsion = TRUE]
    /\ log' = Append(log, <<"w", "RCC_CR.HSION", 1>>)
    /\ UNCHANGED <<flash, pmu, sw_to, clocks>>
    /\ FreezeFrame

\* cfgr4.flitfclk_pre <- 7
EnableHsi_Pre ==
    /\ Goto("hsi_pre", "osc_wait")
    /\ rcc' = [rcc EXCEPT !.flitfclk_pre = 7]
    /\ log' = Append(log, <<"w", "RCC_CFGR4.FLITFCLK_PRE", 7>>)
    /\ UNCHANGED <<flash, pmu, sw_to, clocks>>
    /\ FreezeFrame

\* enable_clock, LSI arm: csr.lsion <- 1
EnableLsi_On ==
    /\ clock_src[1] = "LSI"
    /\ Goto("enable", "osc_wait")
    /\ rcc' = [rcc EXCEPT !.lsion = TRUE]
    /\ log' = Append(log, <<"w", "RCC_CSR.LSION", 1>>)
    /\ UNCHANGED <<flash, pmu, sw_to, clocks>>
    /\ FreezeFrame

\* the ready flag each arm polls
ReadyFlag(c_src) ==
    CASE c_src[1] = "HSE" -> "EXTCLKRDY"
      [] c_src[1] = "HSI" -> "HSIRDY"
      [] c_src[1] = "LSI" -> "LSIRDY"

ReadyBit(r, flag) ==
    CASE flag = "EXTCLKRDY" -> r.extclkrdy
      [] flag = "HSIRDY" -> r.hsirdy
      [] flag = "LSIRDY" -> r.lsirdy

\* enable_clock going on after a single read of the ready flag
WaitReady_SingleRead ==
    /\ Goto("osc_wait", "flash_wait")
    /\ log' = Append(log, <<"r", ReadyFlag(clock_src),
                            IF ReadyBit(rcc, ReadyFlag(clock_src)) THEN 1 ELSE 0>>)
    /\ UNCHANGED <<rcc, flash, pmu, sw_to, clocks>>
    /\ FreezeFrame

\* while <ready flag>.is_not_ready() {} : the loop is left by the read that
\* finds the flag set; a read that finds it clear changes nothing
WaitReady ==
    /\ Goto("osc_wait", "flash_wait")
    /\ ReadyBit(rcc, ReadyFlag(clock_src))
    /\ log' = Append(log, <<"r", ReadyFlag(clock_src),
                            IF ReadyBit(rcc, ReadyFlag(clock_src)) THEN 1 ELSE 0>>)
    /\ UNCHANGED <<rcc, flash, pmu, sw_to, clocks>>
    /\ FreezeFrame

\* enable_clock without the call of set_flash_wait
set_flash_wait_Omitted ==
    /\ Goto("flash_wait", "prescale")
    /\ sw_to' = SwCode(clock_src)
    /\ UNCHANGED <<rcc, flash, pmu, clocks, log>>
    /\ FreezeFrame

\* set_flash_wait(flash, freq) and sw_to = ...
set_flash_wait ==
    /\ Goto("flash_wait", "prescale")
    /\ LET code == FlashWaitCode(get_freq(clock_src))
       IN  /\ flash' = [flash EXCEPT !.latency = code]
           /\ log' = Append(log, <<"w", "FLASH_ACR.LATENCY", code>>)
    /\ sw_to' = SwCode(clock_src)
    /\ UNCHANGED <<rcc, pmu, clocks>>
    /\ FreezeFrame

\* cfgr.modify(hpre().div1().ppre().div1())
SetPrescalers ==
    /\ Goto("prescale", "switch")
    /\ rcc' = [rcc EXCEPT !.hpre = 0, !.ppre = 0]
    /\ log' = Append(log, <<"w", "RCC_CFGR.HPRE_PPRE", 0>>)
    /\ UNCHANGED <<flash, pmu, sw_to, clocks>>
    /\ FreezeFrame

\* cfgr.modify(sw().bits(sw_to))
WriteSw ==
    /\ Goto("switch", "sws_wait")
    /\ rcc' = [rcc EXCEPT !.sw = sw_to]
    /\ log' = Append(log, <<"w", "RCC_CFGR.SW", sw_to>>)
    /\ UNCHANGED <<flash, pmu, sw_to, clocks>>
    /\ FreezeFrame

\* enable_clock giving up the SWS poll after one read
WaitSws_SingleRead ==
    /\ Goto("sws_wait", "int_vec")
    /\ log' = Append(log, <<"r", "RCC_CFGR.SWS", rcc.sws>>)
    /\ UNCHANGED <<rcc, flash, pmu, sw_to, clocks>>
    /\ FreezeFrame

\* while cfgr.sws != sw_to {}
WaitSws ==
    /\ Goto("sws_wait", "int_vec")
    /\ rcc.sws = sw_to
    /\ log' = Append(log, <<"r", "RCC_CFGR.SWS", rcc.sws>>)
    /\ UNCHANGED <<rcc, flash, pmu, sw_to, clocks>>
    /\ FreezeFrame

\* flash.int_vec_offset <- 0
ClearIntVecOffset ==
    /\ Goto("int_vec", "return")
    /\ flash' = [flash EXCEPT !.int_vec_offset = 0]
    /\ log' = Append(log, <<"w", "FLASH_INT_VEC_OFFSET", 0>>)
    /\ UNCHANGED <<rcc, pmu, sw_to, clocks>>
    /\ FreezeFrame

\* let freq = get_freq(..); Rcc { clocks: Clocks { hclk, pclk, sysclk }, .. }
FreezeReturn ==
    /\ Goto("return", "frozen")
    /\ LET freq == get_freq(clock_src)
       IN  clocks' = [hclk |-> freq, pclk |-> freq, sysclk |-> freq]
    /\ UNCHANGED <<rcc, flash, pmu, sw_to, log>>
    /\ FreezeFrame

-----------------------------------------------------------------------------
(* The clock hardware, as the code's polling loops expect it to behave *)

InFreeze == pc \notin {"builder", "frozen"}

\* an oscillator that is switched on becomes ready
HwOscReady ==
    /\ InFreeze
    /\ \/ rcc.extclkon /\ ~rcc.extclkrdy /\ rcc' = [rcc EXCEPT !.extclkrdy = TRUE]
       \/ rcc.lsion /\ ~rcc.lsirdy /\ rcc' = [rcc EXCEPT !.lsirdy = TRUE]
    /\ UNCHANGED <<clock_src, calls, last_sel, overwrote, pc, flash, pmu, factory,
                   sw_to, clocks, latency0, cr0, log>>
    /\ UNCHANGED <<adcVars, timVars, serVars>>

OscReady(code) ==
    CASE code = 0 -> rcc.hsion /\ rcc.hsirdy
      [] code = 1 -> rcc.extclkon /\ rcc.extclkrdy
      [] code = 3 -> rcc.lsion /\ rcc.lsirdy
      [] OTHER -> FALSE

\* the system clock mux follows SW once the selected oscillator is ready
HwClockSwitch ==
    /\ InFreeze
    /\ rcc.sws # rcc.sw
    /\ OscReady(rcc.sw)
    /\ rcc' = [rcc EXCEPT !.sws = rcc.sw]
    /\ UNCHANGED <<clock_src, calls, last_sel, overwrote, pc, flash, pmu, factory,
                   sw_to, clocks, latency0, cr0, log>>
    /\ UNCHANGED <<adcVars, timVars, serVars>>

\* the frequency the core runs at: that of the source SWS reports
CoreFreq ==
    CASE rcc.sws = 0 -> HSI
      [] rcc.sws = 1 -> get_freq(clock_src)
      [] rcc.sws = 3 -> LSI

NextRcc ==
    \/ hse \/ hsi \/ lsi
    \/ hsi_trimming_value_load
    \/ pmu_trimming_value_load
    \/ EnableHse_Sel \/ EnableHse_On
    \/ EnableHsi_On \/ EnableHsi_Pre
    \/ EnableLsi_On
    \/ WaitReady
    \/ set_flash_wait
    \/ SetPrescalers
    \/ WriteSw
    \/ WaitSws
    \/ ClearIntVecOffset
    \/ FreezeReturn
    \/ HwOscReady
    \/ HwClockSwitch

SpecRcc == InitRcc /\ [][NextRcc]_vars

\* the statements of freeze: the core executes the next one whenever it can;
\* nothing is assumed of the clock hardware
FreezeStatements ==
    \/ hsi_trimming_value_load
    \/ pmu_trimming_value_load
    \/ EnableHse_Sel \/ EnableHse_On
    \/ EnableHsi_On \/ EnableHsi_Pre
    \/ EnableLsi_On
    \/ WaitReady
    \/ set_flash_wait
    \/ SetPrescalers
    \/ WriteSw
    \/ WaitSws
    \/ ClearIntVecOffset
    \/ FreezeReturn

\* freeze entered with the flash at any latency and calibration words that
\* are all applied
InitRccRun ==
    /\ \E l \in LatencyCodes :
          RccAtEntry(Word(0, 0), l,
                     [hsi |-> Word(57191, 8344), bgp |-> Word(60148, 5387),
                      ldo |-> Word(48042, 17493), lpldo |-> Word(42435, 23100)])
    /\ AdcNew
    /\ TimerNone
    /\ SerialNew

SpecRccRun == InitRccRun /\ [][NextRcc]_vars /\ WF_vars(FreezeStatements)

-----------------------------------------------------------------------------
(* Adc: the operations that run to completion without touching a register *)

RccFrame == UNCHANGED <<rccVars, timVars, serVars>>

Cfg == <<sample_time, align>>

NoLocals ==
    /\ chan' = 0 /\ res' = 0 /\ prev_cfg' = NoConfig
    /\ was_enabled' = FALSE /\ vdda' = 0 /\ mv_chan' = 0

\* the caller gets value back from operation op
Returned(op, value) ==
    /\ last_op' = op
    /\ ret' = value

\* an operation that is one step for the caller
Called(op, value) ==
    /\ apc = "idle"
    /\ Returned(op, value)
    /\ outcome' = "none"
    /\ pre_cfg' = Cfg
    /\ alog' = << >>
    /\ UNCHANGED <<apc, stack, chan, res, prev_cfg, was_enabled, vdda, mv_chan>>
    /\ RccFrame

\* Adc::restore_cfg that forgets the alignment
restore_cfg_SampleTimeOnly ==
    /\ saved # NoConfig
    /\ Called("restore_cfg", 0)
    /\ sample_time' = saved[1]
    /\ UNCHANGED <<align, adc, saved, at_save>>

\* Adc::save_cfg
save_cfg ==
    /\ Called("save_cfg", 0)
    /\ saved' = StoredConfig(sample_time, align)
    /\ at_save' = Cfg
    /\ UNCHANGED <<sample_time, align, adc>>

\* Adc::restore_cfg(cfg), cfg a value save_cfg returned
restore_cfg ==
    /\ saved # NoConfig
    /\ Called("restore_cfg", 0)
    /\ sample_time' = saved[1]
    /\ align' = saved[2]
    /\ UNCHANGED <<adc, saved, at_save>>

\* Adc::default_cfg (the caller drops the StoredConfig it returns)
default_cfg ==
    /\ Called("default_cfg", 0)
    /\ sample_time' = AdcSampleTime_default
    /\ align' = AdcAlign_default
    /\ UNCHANGED <<adc, saved, at_save>>

\* Adc::set_sample_time
set_sample_time ==
    \E t_samp \in SampleTimes :
        /\ Called("set_sample_time", 0)
        /\ sample_time' = t_samp
        /\ UNCHANGED <<align, adc, saved, at_save>>

\* Adc::set_align
set_align ==
    \E al \in Aligns :
        /\ Called("set_align", 0)
        /\ align' = al
        /\ UNCHANGED <<sample_time, adc, saved, at_save>>

\* Adc::max_sample
MaxSample ==
    /\ Called("max_sample", max_sample(align))
    /\ UNCHANGED <<sample_time, align, adc, saved, at_save>>

-----------------------------------------------------------------------------
(* OneShot::read = power_up; convert; power_down, statement by statement *)

AGoto(from, to) == apc = from /\ apc' = to

\* what a statement inside read leaves alone
ReadFrame ==
    /\ UNCHANGED <<sample_time, align, stack, chan, prev_cfg, was_enabled, vdda,
                   mv_chan, saved, at_save, last_op, pre_cfg, ret, outcome>>
    /\ RccFrame

Access(kind, reg, val) == alog' = Append(alog, <<kind, reg, val>>)

B(bit) == IF bit THEN 1 ELSE 0

\* the caller starts adc.read(&mut pin)
ReadCall(pins) ==
    \E pin \in pins :
        /\ AGoto("idle", "pu_check")
        /\ stack' = <<"caller">>
        /\ chan' = channel(pin)
        /\ last_op' = "none" /\ ret' = 0 /\ outcome' = "none"
        /\ pre_cfg' = Cfg
        /\ alog' = << >>
        /\ UNCHANGED <<sample_time, align, adc, res, prev_cfg, was_enabled, vdda,
                       mv_chan, saved, at_save>>
        /\ RccFrame

\* power_up: if isr.adrdy is set { ... }
PowerUp_Check ==
    /\ apc = "pu_check"
    /\ apc' = IF adc.adrdy THEN "pu_clear" ELSE "pu_enable"
    /\ Access("r", "ADC_ISR.ADRDY", B(adc.adrdy))
    /\ UNCHANGED <<adc, res>>
    /\ ReadFrame

\* isr.adrdy <- 0
PowerUp_Clear ==
    /\ AGoto("pu_clear", "pu_enable")
    /\ adc' = [adc EXCEPT !.adrdy = FALSE]
    /\ Access("w", "ADC_ISR.ADRDY", 0)
    /\ UNCHANGED res
    /\ ReadFrame

\* cr.aden <- 1
PowerUp_Enable ==
    /\ AGoto("pu_enable", "pu_wait")
    /\ adc' = [adc EXCEPT !.aden = TRUE]
    /\ Access("w", "ADC_CR.ADEN", 1)
    /\ UNCHANGED res
    /\ ReadFrame

\* power_up going on without waiting for ADRDY
PowerUp_NoWait ==
    /\ AGoto("pu_wait", "cv_chselr")
    /\ Access("r", "ADC_ISR.ADRDY", B(adc.adrdy))
    /\ UNCHANGED <<adc, res>>
    /\ ReadFrame

\* while isr.adrdy is clear {}
PowerUp_Wait ==
    /\ AGoto("pu_wait", "cv_chselr")
    /\ adc.adrdy
    /\ Access("r", "ADC_ISR.ADRDY", B(adc.adrdy))
    /\ UNCHANGED <<adc, res>>
    /\ ReadFrame

\* convert: chselr <- 1 << chan
\* (CHSELR and SMPR are never read back: their content is the last write
\* to them in alog)
Convert_Chselr ==
    /\ AGoto("cv_chselr", "cv_smpr")
    /\ Access("w", "ADC_CHSELR", 2 ^ chan)
    /\ UNCHANGED <<adc, res>>
    /\ ReadFrame

\* convert programming the default sample time whatever the engine holds
Convert_Smpr_Default ==
    /\ AGoto("cv_smpr", "cv_align")
    /\ Access("w", "ADC_SMPR.SMP", SmpBits(AdcSampleTime_default))
    /\ UNCHANGED <<adc, res>>
    /\ ReadFrame

\* smpr.smp <- self.sample_time.into()
Convert_Smpr ==
    /\ AGoto("cv_smpr", "cv_align")
    /\ Access("w", "ADC_SMPR.SMP", SmpBits(sample_time))
    /\ UNCHANGED <<adc, res>>
    /\ ReadFrame

\* cfgr1.align <- self.align.into()
Convert_Align ==
    /\ AGoto("cv_align", "cv_start")
    /\ adc' = [adc EXCEPT !.align = AlignBit(align)]
    /\ Access("w", "ADC_CFGR1.ALIGN", B(AlignBit(align)))
    /\ UNCHANGED res
    /\ ReadFrame

\* cr.adstart <- 1
Convert_Start ==
    /\ AGoto("cv_start", "cv_wait")
    /\ adc' = [adc EXCEPT !.adstart = TRUE]
    /\ Access("w", "ADC_CR.ADSTART", 1)
    /\ UNCHANGED res
    /\ ReadFrame

\* while isr.eoc is clear {}
Convert_Wait ==
    /\ AGoto("cv_wait", "cv_read")
    /\ adc.eoc
    /\ Access("r", "ADC_ISR.EOC", B(adc.eoc))
    /\ UNCHANGED <<adc, res>>
    /\ ReadFrame

\* let res = dr.bits() as u16; if Left { res << 8 } else { res }
\* (reading DR clears the end-of-conversion flag)
Convert_Read ==
    /\ AGoto("cv_read", "pd_stop")
    /\ LET word == AsU16(adc.dr)
       IN  res' = IF align = "Left" THEN AsU16(word * 256) ELSE word
    /\ adc' = [adc EXCEPT !.eoc = FALSE]
    /\ Access("r", "ADC_DR", adc.dr)
    /\ ReadFrame

\* power_down: cr.adstp <- 1
PowerDown_Stop ==
    /\ AGoto("pd_stop", "pd_stop_wait")
    /\ adc' = [adc EXCEPT !.adstp = TRUE]
    /\ Access("w", "ADC_CR.ADSTP", 1)
    /\ UNCHANGED res
    /\ ReadFrame

\* while cr.adstp is set {}
PowerDown_StopWait ==
    /\ AGoto("pd_stop_wait", "pd_disable")
    /\ ~adc.adstp
    /\ Access("r", "ADC_CR.ADSTP", B(adc.adstp))
    /\ UNCHANGED <<adc, res>>
    /\ ReadFrame

\* cr.addis <- 1
PowerDown_Disable ==
    /\ AGoto("pd_disable", "pd_off_wait")
    /\ adc' = [adc EXCEPT !.addis = TRUE]
    /\ Access("w", "ADC_CR.ADDIS", 1)
    /\ UNCHANGED res
    /\ ReadFrame

\* power_down leaving without waiting for ADEN to clear
PowerDown_NoOffWait ==
    /\ AGoto("pd_off_wait", "rd_return")
    /\ Access("r", "ADC_CR.ADEN", B(adc.aden))
    /\ UNCHANGED <<adc, res>>
    /\ ReadFrame

\* while cr.aden is set {}
PowerDown_OffWait ==
    /\ AGoto("pd_off_wait", "rd_return")
    /\ ~adc.aden
    /\ Access("r", "ADC_CR.ADEN", B(adc.aden))
    /\ UNCHANGED <<adc, res>>
    /\ ReadFrame

\* the variant of Ok(res.into())
ReadResult == "Ok"

\* a read that reports it would block
ReadReturn_WouldBlock ==
    /\ apc = "rd_return"
    /\ Head(stack) = "caller"
    /\ apc' = "idle"
    /\ stack' = << >>
    /\ Returned("read", 0)
    /\ outcome' = "WouldBlock"
    /\ NoLocals
    /\ UNCHANGED <<sample_time, align, adc, saved, at_save, pre_cfg, alog>>
    /\ RccFrame

\* Ok(res.into()), back in the application
ReadReturn ==
    /\ apc = "rd_return"
    /\ Head(stack) = "caller"
    /\ apc' = "idle"
    /\ stack' = << >>
    /\ Returned("read", res)
    /\ outcome' = ReadResult
    /\ NoLocals
    /\ UNCHANGED <<sample_time, align, adc, saved, at_save, pre_cfg, alog>>
    /\ RccFrame

\* Ok(res.into()), back in read_vdda or read_abs_mv, which unwrap it
\* (unwrap panics on any other variant)
ReadReturnInner ==
    /\ apc = "rd_return"
    /\ Head(stack) # "caller"
    /\ outcome' = ReadResult
    /\ apc' = CASE ReadResult # "Ok" -> "panicked"
                [] Head(stack) = "read_vdda" ->
                      (IF was_enabled THEN "vd_restore" ELSE "vd_disable")
                [] Head(stack) = "read_abs_mv" -> "mv_result"
    /\ stack' = Tail(stack)
    /\ UNCHANGED <<sample_time, align, adc, chan, res, prev_cfg, was_enabled, vdda,
                   mv_chan, saved, at_save, last_op, pre_cfg, ret, alog>>
    /\ RccFrame

-----------------------------------------------------------------------------
(* VRef::enable / disable / is_enabled / read_vdda, Adc::read_abs_mv *)

\* VRef::enable
VRef_enable ==
    /\ Called("enable", 0)
    /\ adc' = [adc EXCEPT !.vrefen = TRUE]
    /\ UNCHANGED <<sample_time, align, saved, at_save>>

\* VRef::disable
VRef_disable ==
    /\ Called("disable", 0)
    /\ adc' = [adc EXCEPT !.vrefen = FALSE]
    /\ UNCHANGED <<sample_time, align, saved, at_save>>

\* VRef::is_enabled
VRef_is_enabled ==
    /\ Called("is_enabled", B(adc.vrefen))
    /\ UNCHANGED <<sample_time, align, adc, saved, at_save>>

\* what a statement of read_vdda / read_abs_mv leaves alone
VddaFrame ==
    /\ UNCHANGED <<saved, at_save, last_op, pre_cfg, ret, outcome, mv_chan, vdda>>
    /\ RccFrame

\* the application calls VRef::read_vdda(adc)
VddaCall ==
    /\ AGoto("idle", "vd_default")
    /\ stack' = <<"caller">>
    /\ last_op' = "none" /\ ret' = 0 /\ outcome' = "none"
    /\ pre_cfg' = Cfg
    /\ alog' = << >>
    /\ UNCHANGED <<sample_time, align, adc, chan, res, prev_cfg, was_enabled, vdda,
                   mv_chan, saved, at_save>>
    /\ RccFrame

\* read_vdda that saves the configuration without resetting it
Vdda_DefaultCfg_SaveOnly ==
    /\ AGoto("vd_default", "vd_is_enabled")
    /\ prev_cfg' = StoredConfig(sample_time, align)
    /\ UNCHANGED <<sample_time, align, adc, stack, chan, res, was_enabled, alog>>
    /\ VddaFrame

\* let prev_cfg = adc.default_cfg()
Vdda_DefaultCfg ==
    /\ AGoto("vd_default", "vd_is_enabled")
    /\ prev_cfg' = StoredConfig(sample_time, align)
    /\ sample_time' = AdcSampleTime_default
    /\ align' = AdcAlign_default
    /\ UNCHANGED <<adc, stack, chan, res, was_enabled, alog>>
    /\ VddaFrame

\* if vref.is_enabled(adc)
Vdda_IsEnabled ==
    /\ apc = "vd_is_enabled"
    /\ was_enabled' = adc.vrefen
    /\ apc' = IF adc.vrefen THEN "vd_read" ELSE "vd_enable"
    /\ Access("r", "ADC_CCR.VREFEN", B(adc.vrefen))
    /\ UNCHANGED <<sample_time, align, adc, stack, chan, res, prev_cfg>>
    /\ VddaFrame

\* vref.enable(adc)
Vdda_Enable ==
    /\ AGoto("vd_enable", "vd_read")
    /\ adc' = [adc EXCEPT !.vrefen = TRUE]
    /\ Access("w", "ADC_CCR.VREFEN", 1)
    /\ UNCHANGED <<sample_time, align, stack, chan, res, prev_cfg, was_enabled>>
    /\ VddaFrame

\* adc.read(&mut vref)
Vdda_Read ==
    /\ AGoto("vd_read", "pu_check")
    /\ stack' = <<"read_vdda">> \o stack
    /\ chan' = channel("VRef")
    /\ UNCHANGED <<sample_time, align, adc, res, prev_cfg, was_enabled, alog>>
    /\ VddaFrame

\* read_vdda that leaves the internal reference on
Vdda_Disable_Skipped ==
    /\ AGoto("vd_disable", "vd_restore")
    /\ UNCHANGED <<sample_time, align, adc, stack, chan, res, prev_cfg, was_enabled, alog>>
    /\ VddaFrame

\* vref.disable(adc)
Vdda_Disable ==
    /\ AGoto("vd_disable", "vd_restore")
    /\ adc' = [adc EXCEPT !.vrefen = FALSE]
    /\ Access("w", "ADC_CCR.VREFEN", 0)
    /\ UNCHANGED <<sample_time, align, stack, chan, res, prev_cfg, was_enabled>>
    /\ VddaFrame

\* read_vdda that does not give the caller's configuration back
Vdda_RestoreCfg_Skipped ==
    /\ AGoto("vd_restore", "vd_result")
    /\ UNCHANGED <<sample_time, align, adc, stack, chan, res, prev_cfg, was_enabled, alog>>
    /\ VddaFrame

\* adc.restore_cfg(prev_cfg)
Vdda_RestoreCfg ==
    /\ AGoto("vd_restore", "vd_result")
    /\ sample_time' = prev_cfg[1]
    /\ align' = prev_cfg[2]
    /\ UNCHANGED <<adc, stack, chan, res, prev_cfg, was_enabled, alog>>
    /\ VddaFrame

\* (4095 * 1200 / vref_val) as u16
VddaValue(vref_val) == AsU16((4095 * 1200) \div vref_val)

\* the division panics when vref_val is 0
Vdda_Panic ==
    /\ AGoto("vd_result", "panicked")
    /\ res = 0
    /\ UNCHANGED <<sample_time, align, adc, stack, chan, res, prev_cfg, was_enabled, alog>>
    /\ VddaFrame

\* read_vdda returns to the application
Vdda_Return ==
    /\ AGoto("vd_result", "idle")
    /\ res # 0
    /\ Head(stack) = "caller"
    /\ stack' = << >>
    /\ Returned("read_vdda", VddaValue(res))
    /\ NoLocals
    /\ UNCHANGED <<sample_time, align, adc, saved, at_save, pre_cfg, alog, outcome>>
    /\ RccFrame

\* read_vdda returns to read_abs_mv: let vdda = u32::from(..)
Vdda_ReturnInner ==
    /\ AGoto("vd_result", "mv_read")
    /\ res # 0
    /\ Head(stack) = "read_abs_mv"
    /\ stack' = Tail(stack)
    /\ vdda' = VddaValue(res)
    /\ UNCHANGED <<sample_time, align, adc, chan, res, prev_cfg, was_enabled, mv_chan,
                   saved, at_save, last_op, pre_cfg, ret, outcome, alog>>
    /\ RccFrame

\* the application calls adc.read_abs_mv(&mut pin); it calls VRef::read_vdda(self)
AbsMvCall(pins) ==
    \E pin \in pins :
        /\ AGoto("idle", "vd_default")
        /\ stack' = <<"read_abs_mv", "caller">>
        /\ mv_chan' = channel(pin)
        /\ last_op' = "none" /\ ret' = 0 /\ outcome' = "none"
        /\ pre_cfg' = Cfg
        /\ alog' = << >>
        /\ UNCHANGED <<sample_time, align, adc, chan, res, prev_cfg, was_enabled, vdda,
                       saved, at_save>>
        /\ RccFrame

\* let v: u32 = self.read(pin).unwrap()
AbsMv_Read ==
    /\ AGoto("mv_read", "pu_check")
    /\ stack' = <<"read_abs_mv">> \o stack
    /\ chan' = mv_chan
    /\ UNCHANGED <<sample_time, align, adc, res, prev_cfg, was_enabled, alog>>
    /\ VddaFrame

\* a * b / m on u32, for a, b < 65536 (the product stays below 2^32); the
\* quotient is computed in two parts
MulDiv(a, b, m) ==
    LET hi == (a \div 256) * b
        lo == (a % 256) * b
    IN  256 * (hi \div m) + (256 * (hi % m) + lo) \div m

\* read_abs_mv scaling by the right-aligned full scale whatever the alignment
AbsMv_Return_RightScale ==
    /\ AGoto("mv_result", "idle")
    /\ Head(stack) = "caller"
    /\ stack' = << >>
    /\ Returned("read_abs_mv", AsU16(MulDiv(res, vdda, 4095)))
    /\ NoLocals
    /\ UNCHANGED <<sample_time, align, adc, saved, at_save, pre_cfg, alog, outcome>>
    /\ RccFrame

\* (v * vdda / max_samp) as u16, back in the application
AbsMv_Return ==
    /\ AGoto("mv_result", "idle")
    /\ Head(stack) = "caller"
    /\ stack' = << >>
    /\ Returned("read_abs_mv", AsU16(MulDiv(res, vdda, max_sample(align))))
    /\ NoLocals
    /\ UNCHANGED <<sample_time, align, adc, saved, at_save, pre_cfg, alog, outcome>>
    /\ RccFrame

-----------------------------------------------------------------------------
(* The converter, as the code's polling loops expect it to behave *)

HwFrame ==
    /\ UNCHANGED <<sample_time, align, apc, stack, chan, res, prev_cfg, was_enabled,
                   vdda, mv_chan, saved, at_save, last_op, pre_cfg, ret, outcome, alog>>
    /\ RccFrame

\* the converter, enabled, becomes ready
HwAdcReady ==
    /\ adc.aden /\ ~adc.adrdy
    /\ adc' = [adc EXCEPT !.adrdy = TRUE]
    /\ HwFrame

\* a started conversion ends: the data register holds the 12-bit result,
\* left-aligned in 16 bits when CFGR1.ALIGN is set
HwEndOfConversion(raws) ==
    \E r \in raws :
        /\ adc.aden /\ adc.adstart /\ ~adc.eoc
        /\ adc' = [adc EXCEPT !.dr = IF adc.align THEN r * 16 ELSE r,
                              !.eoc = TRUE, !.adstart = FALSE]
        /\ HwFrame

\* a requested stop completes
HwAdcStopped ==
    /\ adc.adstp
    /\ adc' = [adc EXCEPT !.adstp = FALSE, !.adstart = FALSE]
    /\ HwFrame

\* a requested disable completes (the stale conversion result is not kept:
\* the code reads DR only after the next end of conversion)
HwAdcDisabled ==
    /\ adc.addis
    /\ adc' = [adc EXCEPT !.addis = FALSE, !.aden = FALSE, !.dr = 0]
    /\ HwFrame

-----------------------------------------------------------------------------
(* The engine with its converter *)

ReadStatements ==
    \/ PowerUp_Check \/ PowerUp_Clear \/ PowerUp_Enable \/ PowerUp_Wait
    \/ Convert_Chselr \/ Convert_Smpr \/ Convert_Align \/ Convert_Start
    \/ Convert_Wait \/ Convert_Read
    \/ PowerDown_Stop \/ PowerDown_StopWait \/ PowerDown_Disable \/ PowerDown_OffWait
    \/ ReadReturn \/ ReadReturnInner

VddaStatements ==
    \/ Vdda_DefaultCfg \/ Vdda_IsEnabled \/ Vdda_Enable \/ Vdda_Read
    \/ Vdda_Disable \/ Vdda_RestoreCfg \/ Vdda_Panic \/ Vdda_Return

AbsMvStatements ==
    \/ Vdda_ReturnInner \/ AbsMv_Read \/ AbsMv_Return

AdcHardware(raws) ==
    \/ HwAdcReady
    \/ HwEndOfConversion(raws)
    \/ HwAdcStopped
    \/ HwAdcDisabled

\* every operation but save_cfg / restore_cfg, on every input
NextAdc ==
    \/ default_cfg
    \/ set_sample_time \/ set_align
    \/ MaxSample
    \/ VRef_enable \/ VRef_disable \/ VRef_is_enabled
    \/ ReadCall(AdcPins)
    \/ VddaCall
    \/ AbsMvCall(AdcPins)
    \/ ReadStatements \/ VddaStatements \/ AbsMvStatements
    \/ AdcHardware(RawSamples)

\* the configuration operations with save_cfg / restore_cfg, and reads of
\* one pin and of the reference between them
CfgPins == {"PC4"}
CfgRawSamples == {0, 1500}

NextAdcCfg ==
    \/ save_cfg \/ restore_cfg \/ default_cfg
    \/ set_sample_time \/ set_align
    \/ ReadCall(CfgPins)
    \/ VddaCall
    \/ ReadStatements \/ VddaStatements
    \/ AdcHardware(CfgRawSamples)

\* the clock tree as the pre-init hook leaves it; the engine does not use it
InitAdc ==
    /\ RccAtEntry(Word(0, 0), 0,
                  [hsi |-> Word(65535, 65535), bgp |-> Word(65535, 65535),
                   ldo |-> Word(65535, 65535), lpldo |-> Word(65535, 65535)])
    /\ AdcNew
    /\ TimerNone
    /\ SerialNew

SpecAdc == InitAdc /\ [][NextAdc]_vars

SpecAdcCfg == InitAdc /\ [][NextAdcCfg]_vars

-----------------------------------------------------------------------------
(* Vocabulary of the properties below *)

\* positions of the log holding a write to reg / a poll of flag
WritesTo(reg) == {i \in DOMAIN log : log[i][1] = "w" /\ log[i][2] = reg}
PollsOf(flag) == {i \in DOMAIN log : log[i][1] = "r" /\ log[i][2] = flag}

\* the wait-state code the thresholds require for a core frequency
RequiredLatency(f) ==
    CASE f <= 16000000 -> 0
      [] f >= 16000001 /\ f <= 32000000 -> 1
      [] f > 32000000 -> 2

\* the nominal frequency of a source selection
Nominal(src) ==
    CASE src[1] = "HSI" -> 48000000
      [] src[1] = "LSI" -> 60000
      [] src[1] = "HSE" -> src[2]

\* the write that switches the selected oscillator on
EnableReg(src) ==
    CASE src[1] = "HSI" -> "RCC_CR.HSION"
      [] src[1] = "LSI" -> "RCC_CSR.LSION"
      [] src[1] = "HSE" -> "RCC_CR.EXTCLKON"

ExpectedSw(src) ==
    CASE src[1] = "HSI" -> 0
      [] src[1] = "HSE" -> 1
      [] src[1] = "LSI" -> 3

FlashWritten == pc \in {"prescale", "switch", "sws_wait", "int_vec", "return", "frozen"}

-----------------------------------------------------------------------------
\* C1: freeze returns a Clocks value whose hclk, pclk and sysclk are equal,
\* and equal to the nominal frequency of the selected source (HSI 48 MHz,
\* LSI 60 kHz, HSE the caller-supplied frequency).
C1_ClocksNominal ==
    pc = "frozen" =>
        /\ clocks.hclk = clocks.pclk
        /\ clocks.pclk = clocks.sysclk
        /\ clocks.sysclk = Nominal(clock_src)

C1_Witness ==
    /\ pc = "frozen"
    /\ clock_src = <<"LSI">>
    /\ clocks = [hclk |-> 60000, pclk |-> 60000, sysclk |-> 60000]

\* C2: the latency code written is 0 up to 16,000,000 Hz, 1 from 16,000,001
\* to 32,000,000 Hz and 2 above, and never decreases as the frequency grows.
C2_FlashWaitThresholds ==
    /\ FlashWritten =>
          /\ WritesTo("FLASH_ACR.LATENCY") # {}
          /\ \A i \in WritesTo("FLASH_ACR.LATENCY") :
                log[i][3] = RequiredLatency(get_freq(clock_src))
          /\ flash.latency = RequiredLatency(get_freq(clock_src))
    /\ \A f \in HseFreqs :
          get_freq(clock_src) <= f /\ FlashWritten
              => flash.latency <= FlashWaitCode(f)

C2_Witness ==
    /\ pc = "prescale"
    /\ clock_src = <<"HSE", 16000001>>
    /\ flash.latency = 1
    /\ latency0 = 0

\* C3: at every step of freeze the programmed flash latency is at least the
\* code the thresholds require for the frequency the core is running at
\* (given that it was so when freeze was entered).
C3_LatencySufficientThroughout ==
    latency0 >= RequiredLatency(48000000)
        => flash.latency >= RequiredLatency(CoreFreq)

\* C4: the flash latency is written, with the code of the selected source's
\* frequency, strictly before SW is written, and never again.
C4_LatencyBeforeSwitch ==
    /\ Cardinality(WritesTo("FLASH_ACR.LATENCY")) <= 1
    /\ \A i \in WritesTo("RCC_CFGR.SW") :
          \E j \in WritesTo("FLASH_ACR.LATENCY") :
              /\ j < i
              /\ log[j][3] = RequiredLatency(Nominal(clock_src))
    /\ pc = "frozen" => Cardinality(WritesTo("RCC_CFGR.SW")) = 1

C4_Witness ==
    /\ pc = "frozen"
    /\ clock_src = <<"HSE", 32000000>>
    /\ WritesTo("RCC_CFGR.SW") # {}
    /\ flash.latency = 1

\* C5: SW is written only after the selected oscillator was switched on and
\* its ready flag was read as set, and after the prescalers were set to
\* divide-by-1; freeze returns only after SWS was read equal to the code
\* written (HSI 0, HSE 1, LSI 3); the calibration loader ran before all this.
LoaderRegs == {"RCC_CR", "RCC_APBENR1.PWREN"} \cup PmuRegs

C5_SwitchOrder ==
    /\ \A i \in WritesTo("RCC_CFGR.SW") :
          /\ log[i][3] = ExpectedSw(clock_src)
          /\ \E e \in WritesTo(EnableReg(clock_src)) :
                \E r \in PollsOf(ReadyFlag(clock_src)) :
                    e < r /\ r < i /\ log[r][3] = 1
          /\ \E p \in WritesTo("RCC_CFGR.HPRE_PPRE") : p < i /\ log[p][3] = 0
    /\ pc \in {"int_vec", "return", "frozen"} \/ clocks # NoClocks =>
          \E i \in WritesTo("RCC_CFGR.SW") :
              \E k \in PollsOf("RCC_CFGR.SWS") :
                  i < k /\ log[k][3] = ExpectedSw(clock_src)
    /\ \A i \in DOMAIN log :
          log[i][2] \notin LoaderRegs =>
              /\ WritesTo("RCC_APBENR1.PWREN") # {}
              /\ \A j \in DOMAIN log : log[j][2] \in LoaderRegs => j < i

C5_Witness ==
    /\ pc = "frozen"
    /\ clock_src[1] = "HSE"
    /\ clocks.sysclk = 8000000
    /\ rcc.sws = 1
    /\ WritesTo("RCC_CR") # {}

\* C7: each factory word's trim is applied if and only if its low half is
\* the complement of its high half; a rejected word leaves its target
\* registers, and every other register, unwritten.
ComplementRedundant(v) == v.lo + v.hi = 65535

LoaderDone == pc \notin {"builder", "pmu_trim"}

Targets(word) ==
    CASE word = "hsi" -> {"RCC_CR"}
      [] word = "bgp" -> {"PMU_BGP"}
      [] word = "ldo" -> {"PMU_LDO_RUN", "PMU_LDO_LPR"}
      [] word = "lpldo" -> {"PMU_LPLDO_LPR"}

WordNames == {"hsi", "bgp", "ldo", "lpldo"}

\* every target register of the word was written / none was
Applied(word) == \A t \in Targets(word) : WritesTo(t) # {}
Untouched(word) == \A t \in Targets(word) : WritesTo(t) = {}

\* the number of unlock windows in the log
Windows == Cardinality(WritesTo("PMU_BGP")) + Cardinality(WritesTo("PMU_LDO_RUN"))
           + Cardinality(WritesTo("PMU_LPLDO_LPR"))

C7_AppliedIffComplement ==
    LoaderDone =>
        /\ \A w \in WordNames :
              /\ ComplementRedundant(factory[w]) => Applied(w)
              /\ ~ComplementRedundant(factory[w]) => Untouched(w)
        /\ Cardinality(WritesTo("PMU_KEY")) =
              4 * Cardinality({w \in WordNames \ {"hsi"} : ComplementRedundant(factory[w])})

\* C7 as amended: the oscillator, band-gap and LDO words are applied iff
\* complement-redundant; the low-power-LDO word is applied iff its byte 1
\* is the complement of its byte 3; a rejected word's target registers keep
\* their values and get no key window; PWREN is set in every case.
AcceptedByLoader(w) ==
    IF w = "lpldo"
        THEN (factory[w].lo \div 256) + (factory[w].hi \div 256) = 255
        ELSE ComplementRedundant(factory[w])

C7_AppliedIffAccepted ==
    LoaderDone =>
        /\ \A w \in WordNames :
              /\ AcceptedByLoader(w) => Applied(w)
              /\ ~AcceptedByLoader(w) => Untouched(w)
        /\ ~AcceptedByLoader("hsi") => rcc.cr = cr0
        /\ \A w \in WordNames \ {"hsi"} :
              ~AcceptedByLoader(w) => \A t \in Targets(w) : pmu[t] = 0
        /\ AcceptedByLoader("lpldo") => pmu["PMU_LPLDO_LPR"] = factory.lpldo.lo \div 256
        /\ AcceptedByLoader("bgp") => pmu["PMU_BGP"] =
              ((factory.bgp.lo \div 256) % 32) * 256 + (factory.bgp.lo % 32)
        /\ AcceptedByLoader("ldo") =>
              /\ pmu["PMU_LDO_RUN"] = factory.ldo.lo % 256
              /\ pmu["PMU_LDO_LPR"] = factory.ldo.lo \div 256
        /\ Cardinality(WritesTo("PMU_KEY")) =
              4 * Cardinality({w \in WordNames \ {"hsi"} : AcceptedByLoader(w)})
        /\ rcc.pwren /\ Cardinality(WritesTo("RCC_APBENR1.PWREN")) = 1

C7_Witness ==
    /\ LoaderDone
    /\ ~ComplementRedundant(factory.lpldo)
    /\ Applied("lpldo")
    /\ ~ComplementRedundant(factory.hsi) /\ factory.hsi.lo # 65535
    /\ Untouched("hsi")
    /\ ComplementRedundant(factory.bgp)
    /\ Applied("bgp")

\* C8: every payload write of the loader lies inside an unlock window
\* (key 0x1985, key 0x0429, payload, key 0xFFFF twice, nothing interleaved),
\* and the key register's last two writes are the two re-lock writes.
IsKey(i, v) == i \in DOMAIN log /\ log[i] = <<"w", "PMU_KEY", v>>

PayloadRegs == {"RCC_CR", "PMU_BGP", "PMU_LDO_RUN", "PMU_LDO_LPR", "PMU_LPLDO_LPR"}

IsPayload(i, regs) == i \in DOMAIN log /\ log[i][1] = "w" /\ log[i][2] \in regs

\* the first position left / right of i that holds no payload write to regs
RECURSIVE ScanLeft(_, _)
ScanLeft(i, regs) == IF IsPayload(i, regs) THEN ScanLeft(i - 1, regs) ELSE i

RECURSIVE ScanRight(_, _)
ScanRight(i, regs) == IF IsPayload(i, regs) THEN ScanRight(i + 1, regs) ELSE i

\* the payload write at i is bracketed, with only payload writes to regs
\* around it, by the two unlock writes and the two re-lock writes
InWindow(i, regs) ==
    LET a == ScanLeft(i, regs)
        b == ScanRight(i, regs)
    IN  /\ IsPayload(i, regs)
        /\ IsKey(a - 1, 6533) /\ IsKey(a, 1065)
        /\ IsKey(b, 65535) /\ IsKey(b + 1, 65535)

\* the key write at k is one of the four key writes of a window
KeyOfWindow(k, regs) ==
    \/ IsKey(k, 6533) /\ IsKey(k + 1, 1065) /\ InWindow(k + 2, regs)
    \/ IsKey(k, 1065) /\ IsKey(k - 1, 6533) /\ InWindow(k + 1, regs)
    \/ IsKey(k, 65535) /\ IsKey(k + 1, 65535) /\ InWindow(k - 1, regs)
    \/ IsKey(k, 65535) /\ IsKey(k - 1, 65535) /\ InWindow(k - 2, regs)

KeyRelocked ==
    LET K == WritesTo("PMU_KEY")
    IN  K # {} =>
            LET last == CHOOSE k \in K : \A j \in K : j <= k
            IN  IsKey(last, 65535) /\ IsKey(last - 1, 65535)

C8_AllPayloadInWindow ==
    /\ \A i \in DOMAIN log : IsPayload(i, PayloadRegs) => InWindow(i, PayloadRegs)
    /\ LoaderDone => KeyRelocked

\* C8 as amended: the band-gap, LDO and low-power-LDO payload writes lie
\* inside an unlock window and every key write belongs to one; the
\* oscillator trim is written to RCC_CR outside any window, before the key
\* register is first touched.
PmuPayloadRegs == PayloadRegs \ {"RCC_CR"}

C8_PmuPayloadInWindow ==
    /\ \A i \in DOMAIN log :
          /\ IsPayload(i, PmuPayloadRegs) => InWindow(i, PmuPayloadRegs)
          /\ log[i][2] = "PMU_KEY" => KeyOfWindow(i, PmuPayloadRegs)
    /\ \A i \in WritesTo("RCC_CR") :
          ~InWindow(i, PayloadRegs) /\ \A k \in WritesTo("PMU_KEY") : i < k
    /\ LoaderDone => KeyRelocked /\ (Windows > 0 => pmu["PMU_KEY"] = 65535)

C8_Witness ==
    /\ LoaderDone
    /\ WritesTo("RCC_CR") # {}
    /\ \E i \in WritesTo("PMU_LDO_RUN") :
          /\ IsPayload(i + 1, {"PMU_LDO_LPR"})
          /\ IsKey(i - 1, 1065) /\ IsKey(i + 2, 65535)
    /\ WritesTo("PMU_LPLDO_LPR") # {}

-----------------------------------------------------------------------------
(* Vocabulary of the properties of the conversion engine *)

AWrites(reg, val) == {i \in DOMAIN alog : alog[i] = <<"w", reg, val>>}
AReads(reg, val) == {i \in DOMAIN alog : alog[i] = <<"r", reg, val>>}

\* the position of the last ADEN <- 1: where the read in progress powered up
LastPowerUp ==
    LET E == AWrites("ADC_CR.ADEN", 1)
    IN  IF E = {} THEN 0 ELSE CHOOSE e \in E : \A k \in E : k <= e

\* C6: every read that returns leaves the converter powered down: ADSTP was
\* set and then read clear, ADDIS was set and then ADEN read clear, and the
\* enable bit is clear when read returns; also for a read that follows
\* another read.
C6_ReadEndsPoweredDown ==
    /\ apc = "rd_return" =>
          /\ ~adc.aden /\ ~adc.adstp
          /\ \E i \in AWrites("ADC_CR.ADSTP", 1) : \E j \in AReads("ADC_CR.ADSTP", 0) :
                \E k \in AWrites("ADC_CR.ADDIS", 1) :
                    /\ LastPowerUp < i /\ i < j /\ j < k
                    /\ k < Len(alog)
                    /\ alog[Len(alog)] = <<"r", "ADC_CR.ADEN", 0>>
    /\ apc = "idle" => ~adc.aden /\ ~adc.adstart /\ ~adc.adstp /\ ~adc.addis

C6_Witness ==
    /\ apc = "rd_return"
    /\ Head(stack) = "caller"
    /\ AWrites("ADC_ISR.ADRDY", 0) # {}
    /\ ~adc.aden
    /\ alog[Len(alog)] = <<"r", "ADC_CR.ADEN", 0>>

\* C9: restore_cfg(cfg), with cfg taken by save_cfg in an engine state s,
\* leaves {sample_time, align} as they were in s whatever was executed in
\* between; save_cfg itself changes nothing.
C9_SaveRestoreRoundTrip ==
    /\ last_op = "restore_cfg" => Cfg = at_save
    /\ last_op = "save_cfg" => Cfg = pre_cfg /\ at_save = pre_cfg
    /\ saved # NoConfig <=> at_save # NoConfig

C9_Witness ==
    /\ last_op = "restore_cfg"
    /\ at_save = <<"T13", "Left">>
    /\ Cfg = at_save
    /\ pre_cfg = <<AdcSampleTime_default, AdcAlign_default>>

\* C10: max_sample() is 4095 when the alignment is Right and 65535 when it
\* is Left, for each sample time, and changes nothing.
C10_MaxSample ==
    last_op = "max_sample" =>
        /\ align = "Right" => ret = 4095
        /\ align = "Left" => ret = 65535
        /\ Cfg = pre_cfg

C10_Witness ==
    /\ last_op = "max_sample"
    /\ align = "Left"
    /\ sample_time = "T1"
    /\ ret = 65535

\* the raw values read from the data register during the operation
DataReads == {i \in DOMAIN alog : alog[i][1] = "r" /\ alog[i][2] = "ADC_DR"}

\* C11: under Right alignment read_vdda returns exactly 4095 * 1200 / r for
\* every raw value r the converter returns for the internal reference, also
\* when the quotient is 65536 or more.
C11_VddaExactQuotient ==
    last_op = "read_vdda" =>
        \A i \in DataReads :
            /\ alog[i][3] # 0
            /\ ret = (4095 * 1200) \div alog[i][3]

\* C12: read_vdda returns with the {sample_time, align} it was called
\* with, whether the internal reference was enabled at entry or not.
C12_VddaKeepsConfig ==
    last_op = "read_vdda" => Cfg = pre_cfg

C12_Witness ==
    /\ last_op = "read_vdda"
    /\ pre_cfg = <<"T7", "Left">>
    /\ Cfg = pre_cfg
    /\ <<"w", "ADC_CCR.VREFEN", 0>> \in {alog[i] : i \in DOMAIN alog}
    /\ <<"w", "ADC_SMPR.SMP", SmpBits(AdcSampleTime_default)>> \in {alog[i] : i \in DOMAIN alog}

\* the first position of an access in the log of the operation (0: none)
FirstOf(entries) ==
    LET I == {i \in DOMAIN alog : alog[i] \in entries}
    IN  IF I = {} THEN 0 ELSE CHOOSE i \in I : \A k \in I : i <= k

VrefenWrites == {i \in DOMAIN alog : alog[i][1] = "w" /\ alog[i][2] = "ADC_CCR.VREFEN"}

\* read_vdda begins by reading VREFEN: the bit as it was at entry
VrefenAtEntry == alog[1] = <<"r", "ADC_CCR.VREFEN", 1>>

\* C13: read_vdda, and read_abs_mv through it, give VREFEN back as found:
\* set at entry, it is never written and is set at return; clear at entry, it
\* is set before the conversion is started, stays set until the data register
\* has been read and is clear at return.
C13_VrefenRestored ==
    /\ (stack # << >> /\ Head(stack) = "read_vdda") => adc.vrefen
    /\ last_op \in {"read_vdda", "read_abs_mv"} =>
          /\ alog[1][2] = "ADC_CCR.VREFEN"
          /\ adc.vrefen = VrefenAtEntry
          /\ VrefenAtEntry => VrefenWrites = {}
          /\ ~VrefenAtEntry =>
                \E e, d \in VrefenWrites :
                    /\ VrefenWrites = {e, d}
                    /\ alog[e][3] = 1 /\ alog[d][3] = 0
                    /\ e < FirstOf({<<"w", "ADC_CR.ADSTART", 1>>})
                    /\ \E r \in DataReads :
                          /\ FirstOf({<<"w", "ADC_CR.ADSTART", 1>>}) < r
                          /\ r < d

C13_Witness ==
    /\ last_op = "read_abs_mv"
    /\ ~VrefenAtEntry
    /\ ~adc.vrefen
    /\ Cardinality(VrefenWrites) = 2
    /\ Cardinality(DataReads) = 2

\* the inputs whose one-hot mask is mask
PinsOfMask(mask) == {p \in AdcPins : 2 ^ channel(p) = mask}

C15_NeverAborts ==
    apc # "panicked"

\* C16: every read on Adc that returns, returns Ok(value): never
\* WouldBlock, never the generic failure, for any pin and engine state; the
\* reads made by read_vdda and read_abs_mv included.
C16_ReadReturnsOk ==
    /\ outcome \in {"none", "Ok"}
    /\ last_op \in {"read", "read_vdda", "read_abs_mv"} => outcome = "Ok"
    /\ apc \in {"vd_disable", "vd_restore", "vd_result", "mv_result"} => outcome = "Ok"

C16_Witness ==
    /\ last_op = "read"
    /\ outcome = "Ok"
    /\ ret = 4095
    /\ <<"w", "ADC_CHSELR", 2 ^ channel("PD3")>> \in {alog[i] : i \in DOMAIN alog}
    /\ sample_time = "T41"

OscillatorEnables == {"RCC_CR.HSION", "RCC_CSR.LSION", "RCC_CR.EXTCLKON"}

ReadyAsserted == pc # "builder" /\ ReadyBit(rcc, ReadyFlag(clock_src))

\* the hardware reports the requested source in SWS
SwsReported == pc # "builder" /\ rcc.sws = ExpectedSw(clock_src)

PastReadyWait == pc \in {"flash_wait", "prescale", "switch", "sws_wait", "int_vec",
                         "return", "frozen"}

PastSwsWait == pc \in {"int_vec", "return", "frozen"}

\* freeze is past a wait only if the awaited value was read, SW is written
\* only for an oscillator read as ready, and a Clocks value exists only once
\* freeze has returned
WaitsHonoured ==
    /\ PastReadyWait =>
          /\ ReadyAsserted
          /\ PollsOf(ReadyFlag(clock_src)) # {}
          /\ \A i \in PollsOf(ReadyFlag(clock_src)) : log[i][3] = 1
    /\ ~PastReadyWait => WritesTo("RCC_CFGR.SW") = {}
    /\ \A i \in WritesTo("RCC_CFGR.SW") :
          /\ OscReady(log[i][3])
          /\ \E j \in PollsOf(ReadyFlag(clock_src)) : j < i
    /\ PastSwsWait =>
          /\ SwsReported
          /\ \E i \in PollsOf("RCC_CFGR.SWS") : log[i][3] = ExpectedSw(clock_src)
          /\ \A i \in PollsOf("RCC_CFGR.SWS") : log[i][3] = ExpectedSw(clock_src)
    /\ clocks # NoClocks <=> pc = "frozen"
    /\ clocks # NoClocks => clocks.sysclk = get_freq(clock_src)

\* C18: freeze waits without bound and without error: if the hardware
\* eventually asserts the ready flag of the selected oscillator and eventually
\* reports the requested source in SWS, freeze eventually returns a Clocks
\* value; it is never past a wait whose condition was not read as met, never
\* writes SW for an oscillator not read as ready, and yields no Clocks value
\* before it returns.
C18_UnboundedWaits ==
    /\ (<>ReadyAsserted /\ <>SwsReported) => <>(pc = "frozen" /\ clocks # NoClocks)
    /\ []WaitsHonoured

C18_Witness ==
    /\ pc = "frozen"
    /\ clock_src = <<"LSI">>
    /\ clocks # NoClocks
    /\ <<"r", "LSIRDY", 1>> \in {log[i] : i \in DOMAIN log}
    /\ <<"r", "RCC_CFGR.SWS", 3>> \in {log[i] : i \in DOMAIN log}

\* the positions of the channel selections and of the data reads, in order
ChselrWrites == {i \in DOMAIN alog : alog[i][1] = "w" /\ alog[i][2] = "ADC_CHSELR"}

Least(I) == CHOOSE i \in I : \A k \in I : i <= k
Greatest(I) == CHOOSE i \in I : \A k \in I : k <= i

\* what read returns for data register content dr under alignment al
ReadValueOf(dr, al) == IF al = "Left" THEN ((dr % 65536) * 256) % 65536 ELSE dr % 65536

\* the full scale of alignment al
FullScale(al) == IF al = "Right" THEN 4095 ELSE 65535

\* a * b < 2^32, a, b < 2^16
FitsU32(a, b) == MulDiv(a, b, 65536) < 65536

\* C19: read_abs_mv(pin) reads the internal reference, then the pin's
\* channel once, and returns exactly v * vdda / max_sample() for the value v
\* read for the pin, the value vdda of read_vdda and the caller's alignment;
\* the product fits 32 bits and the quotient 16 bits.
C19_AbsMvExact ==
    /\ apc = "mv_result" =>
          /\ Cardinality(ChselrWrites) = 2 /\ Cardinality(DataReads) = 2
          /\ alog[Least(ChselrWrites)][3] = 2 ^ channel("VRef")
          /\ alog[Greatest(ChselrWrites)][3] = 2 ^ mv_chan
          /\ Least(DataReads) < Greatest(ChselrWrites)
          /\ vdda = ((4095 * 1200) \div alog[Least(DataReads)][3]) % 65536
          /\ res = ReadValueOf(alog[Greatest(DataReads)][3], align)
          /\ res \in 0..65535 /\ vdda \in 0..65535
          /\ FitsU32(res, vdda)
          /\ MulDiv(res, vdda, max_sample(align)) \in 0..65535
    /\ last_op = "read_abs_mv" =>
          LET v == ReadValueOf(alog[Greatest(DataReads)][3], align)
              vd == ((4095 * 1200) \div alog[Least(DataReads)][3]) % 65536
          IN  /\ Cfg = pre_cfg
              /\ ret = MulDiv(v, vd, FullScale(align))
              /\ (v = 0 \/ vd <= 2147483647 \div v) => ret = (v * vd) \div FullScale(align)

C19_Witness ==
    /\ last_op = "read_abs_mv"
    /\ align = "Left"
    /\ alog[Least(DataReads)][3] = 1
    /\ alog[Greatest(DataReads)][3] = 4095 * 16
    /\ ret = MulDiv(61440, 64336, 65535)
    /\ ret = 60315

\* the register accesses of one read, in order: stale tells whether ADRDY
\* was found set at entry
ReadTrace(stale, mask, smp, al, dr) ==
    (IF stale THEN << <<"r", "ADC_ISR.ADRDY", 1>>, <<"w", "ADC_ISR.ADRDY", 0>> >>
              ELSE << <<"r", "ADC_ISR.ADRDY", 0>> >>)
    \o << <<"w", "ADC_CR.ADEN", 1>>,
          <<"r", "ADC_ISR.ADRDY", 1>>,
          <<"w", "ADC_CHSELR", mask>>,
          <<"w", "ADC_SMPR.SMP", smp>>,
          <<"w", "ADC_CFGR1.ALIGN", al>>,
          <<"w", "ADC_CR.ADSTART", 1>>,
          <<"r", "ADC_ISR.EOC", 1>>,
          <<"r", "ADC_DR", dr>>,
          <<"w", "ADC_CR.ADSTP", 1>>,
          <<"r", "ADC_CR.ADSTP", 0>>,
          <<"w", "ADC_CR.ADDIS", 1>>,
          <<"r", "ADC_CR.ADEN", 0>> >>

\* the accesses of the read in progress: from its first look at ADRDY on
CurrentRead ==
    LET e == LastPowerUp
        first == IF alog[e - 1] = <<"w", "ADC_ISR.ADRDY", 0>> THEN e - 2 ELSE e - 1
    IN  SubSeq(alog, first, Len(alog))

\* C20: a read clears a stale ready flag, sets ADEN, sees ADRDY set, and only
\* then programs the channel and sets ADSTART; it reads the data register
\* only after seeing EOC set; only then it sets ADSTP, sees it clear, sets
\* ADDIS and sees ADEN clear. No conversion is started on a converter that
\* is not ready, and none is in progress when the disable bit is set.
C20_ReadPowerCycle ==
    /\ apc = "rd_return" =>
          \E stale \in BOOLEAN :
              CurrentRead = ReadTrace(stale, 2 ^ chan, SmpBits(sample_time),
                                      B(AlignBit(align)), alog[Len(alog) - 4][3])
    /\ adc.adstart => adc.aden /\ adc.adrdy /\ ~adc.addis
    /\ adc.addis => ~adc.adstart /\ ~adc.adstp /\ ~adc.eoc
    /\ apc \in {"cv_chselr", "cv_smpr", "cv_align", "cv_start", "cv_wait", "cv_read"} =>
          adc.aden /\ adc.adrdy
    /\ apc = "cv_read" => adc.eoc /\ ~adc.adstart
    /\ apc = "idle" => ~adc.adstart /\ ~adc.eoc

C20_Witness ==
    /\ apc = "rd_return"
    /\ Head(stack) = "caller"
    /\ Len(alog) = 14
    /\ alog[2] = <<"w", "ADC_ISR.ADRDY", 0>>
    /\ alog = ReadTrace(TRUE, 2 ^ channel("PD2"), SmpBits("T28"), 1, 1500 * 16)

\* the sample-time codes T1 = 0 ... T239 = 7 and the alignment bits
SampleTimeCode ==
    [T1 |-> 0, T7 |-> 1, T13 |-> 2, T28 |-> 3, T41 |-> 4, T55 |-> 5, T71 |-> 6, T239 |-> 7]

AlignCode == [Left |-> 1, Right |-> 0]

\* a step in which set_sample_time / set_align returns changes only the
\* engine field of that setter and accesses no register
SettersArePure ==
    /\ last_op' = "set_sample_time" =>
          /\ align' = align /\ adc' = adc /\ alog' = << >>
          /\ apc = "idle" /\ apc' = "idle"
    /\ last_op' = "set_align" =>
          /\ sample_time' = sample_time /\ adc' = adc /\ alog' = << >>
          /\ apc = "idle" /\ apc' = "idle"

\* what convert has programmed when it is about to start the conversion
Programmed ==
    apc = "cv_start" =>
        /\ SubSeq(alog, Len(alog) - 2, Len(alog)) =
              << <<"w", "ADC_CHSELR", 2 ^ chan>>,
                 <<"w", "ADC_SMPR.SMP", SampleTimeCode[sample_time]>>,
                 <<"w", "ADC_CFGR1.ALIGN", AlignCode[align]>> >>
        /\ adc.align = (align = "Left")
        /\ chan \in 0..8

\* C21: set_sample_time and set_align change only their own engine field and
\* write no hardware register; the next conversion programs CHSELR with
\* 1 << channel, SMP with the code 0..7 of the engine's current sample time and
\* ALIGN with the engine's current alignment (Left = 1, Right = 0).
C21_SettersTakeEffectOnConversion ==
    /\ [][SettersArePure]_vars
    /\ []Programmed

C21_Witness ==
    /\ apc = "cv_start"
    /\ Head(stack) = "caller"
    /\ sample_time = "T55" /\ align = "Left"
    /\ pre_cfg = <<"T55", "Left">>
    /\ alog[Len(alog) - 1] = <<"w", "ADC_SMPR.SMP", 5>>
    /\ alog[Len(alog)] = <<"w", "ADC_CFGR1.ALIGN", 1>>
    /\ alog[Len(alog) - 2] = <<"w", "ADC_CHSELR", 64>>

\* the 12-bit result behind data register content dr under alignment al
\* (the converter left-aligns it in 16 bits when CFGR1.ALIGN is set)
RawOf(dr, al) == IF al = "Left" THEN dr \div 16 ELSE dr

\* what read returns for the 12-bit result r under alignment al
ReadValueOfRaw(r, al) == ReadValueOf(IF AlignBit(al) THEN r * 16 ELSE r, al)

\* C22: for every 12-bit result r, read returns r under Right alignment; under
\* Left alignment it returns r shifted into 16 bits, within 0..65535, never
\* above max_sample(), and a larger r never gives a smaller value.
C22_AlignedValue ==
    last_op = "read" =>
        LET dr == alog[Greatest(DataReads)][3]
            r == RawOf(dr, align)
        IN  /\ r \in 0..4095
            /\ align = "Right" => ret = r
            /\ align = "Left" =>
                  /\ ret \in 0..65535
                  /\ ret <= max_sample(align)
                  /\ \A r2 \in RawSamples :
                        /\ r2 <= r => ReadValueOfRaw(r2, align) <= ret
                        /\ r2 >= r => ReadValueOfRaw(r2, align) >= ret

\* read_vdda's own conversion is about to be started
VddaConversion == stack # << >> /\ Head(stack) = "read_vdda" /\ apc = "cv_start"

\* C23 (as stated): with the engine's alignment Left when read_vdda is
\* called, the conversion inside read_vdda is programmed with the caller's
\* sample time and alignment, and the value returned is not 4095 * 1200 / r.
C23_VddaUsesCallerConfig ==
    /\ VddaConversion =>
          /\ alog[Len(alog) - 1] = <<"w", "ADC_SMPR.SMP", SampleTimeCode[pre_cfg[1]]>>
          /\ alog[Len(alog)] = <<"w", "ADC_CFGR1.ALIGN", AlignCode[pre_cfg[2]]>>
    /\ (last_op = "read_vdda" /\ pre_cfg[2] = "Left") =>
          ret # ((4095 * 1200) \div alog[Least(DataReads)][3]) % 65536

\* C23 (amended): read_vdda resets the engine to its defaults before its
\* conversion, which is therefore programmed with T239 and Right alignment
\* whatever the caller's configuration; the value returned is the 16-bit
\* value of 4095 * 1200 / r for the raw result r, the same for a caller in
\* Left alignment as for one in Right alignment.
C23_VddaUsesDefaults ==
    /\ VddaConversion =>
          /\ sample_time = "T239" /\ align = "Right"
          /\ alog[Len(alog) - 1] = <<"w", "ADC_SMPR.SMP", 7>>
          /\ alog[Len(alog)] = <<"w", "ADC_CFGR1.ALIGN", 0>>
          /\ ~adc.align
    /\ last_op = "read_vdda" =>
          /\ alog[Least(DataReads)][3] \in 1..4095
          /\ ret = ((4095 * 1200) \div alog[Least(DataReads)][3]) % 65536

C23_Witness ==
    /\ last_op = "read_vdda"
    /\ pre_cfg = <<"T1", "Left">>
    /\ Cfg = pre_cfg
    /\ alog[Least(DataReads)][3] = 1500
    /\ <<"w", "ADC_CFGR1.ALIGN", 0>> \in {alog[i] : i \in DOMAIN alog}
    /\ ret = 3276

-----------------------------------------------------------------------------
(* timers.rs: Timer::tim1 / tim2 / tim6 and CountDown::start *)

\* timers!: the peripherals a Timer is implemented for, with the RCC
\* registers of each
TimIds == {"TIM1", "TIM2", "TIM6"}

TimEnableReg(id) == IF id = "TIM1" THEN "RCC_APBENR2" ELSE "RCC_APBENR1"

TimResetReg(id) == IF id = "TIM1" THEN "RCC_APBRSTR2" ELSE "RCC_APBRSTR1"

\* the peripheral clocks and the timeout frequencies the timer is given
PclkSamples == {60000, 8000000, 32768000, 48000000}

TimeoutSamples == {0, 1, 50, 500, 1000, 100000}

\* cast::u16(x): Ok exactly for the values a u16 holds
FitsU16(x) == x \in 0..65535

TGoto(from, to) == tpc = from /\ tpc' = to

TimerFrame == UNCHANGED <<rccVars, adcVars, serVars>>

TWrite(reg, val) == tlog' = Append(tlog, <<"w", reg, val>>)

\* Timer::timN(tim, timeout, clocks): enable and reset the peripheral, build
\* the Timer with timeout Hertz(0), then timer.start(timeout)
TimerNew ==
    \E id \in TimIds : \E p \in PclkSamples : \E f \in TimeoutSamples :
        /\ TGoto("none", "st_pause")
        /\ tim_id' = id
        /\ tim' = TimAtReset
        /\ tlog' = << <<"w", TimEnableReg(id), 1>>,
                      <<"w", TimResetReg(id), 1>>,
                      <<"w", TimResetReg(id), 0>> >>
        /\ pclk' = p
        /\ timeout' = 0
        /\ count' = f
        /\ UNCHANGED <<ticks, psc>>
        /\ TimerFrame

\* the application calls timer.start(timeout) on a running timer
StartCall ==
    \E f \in TimeoutSamples :
        /\ TGoto("running", "st_pause")
        /\ count' = f
        /\ tlog' = << >>
        /\ UNCHANGED <<tim_id, tim, pclk, timeout, ticks, psc>>
        /\ TimerFrame

\* cr1.cen <- 0
Start_Pause ==
    /\ TGoto("st_pause", "st_reset")
    /\ tim' = [tim EXCEPT !.cen = FALSE]
    /\ TWrite("TIM_CR1.CEN", 0)
    /\ UNCHANGED <<tim_id, pclk, timeout, count, ticks, psc>>
    /\ TimerFrame

\* cnt.reset()
Start_ResetCnt ==
    /\ TGoto("st_reset", "st_ticks")
    /\ tim' = [tim EXCEPT !.cnt = 0]
    /\ TWrite("TIM_CNT", 0)
    /\ UNCHANGED <<tim_id, pclk, timeout, count, ticks, psc>>
    /\ TimerFrame

\* self.timeout = timeout.into(); let ticks = pclk / frequency
\* (the division panics when the frequency is 0)
Start_Ticks ==
    /\ tpc = "st_ticks"
    /\ timeout' = count
    /\ IF count = 0
          THEN tpc' = "panicked" /\ UNCHANGED ticks
          ELSE tpc' = "st_psc" /\ ticks' = pclk \div count
    /\ UNCHANGED <<tim_id, tim, pclk, count, psc, tlog>>
    /\ TimerFrame

\* let psc = u16((ticks - 1) / (1 << 16)).unwrap(); psc <- psc
\* (ticks - 1 with ticks = 0: the subtraction panics where overflow is
\* checked, and wraps to 2^32 - 1 where it is not, which gives psc = 65535)
Start_Psc ==
    /\ tpc = "st_psc"
    /\ \E wraps \in (IF ticks = 0 THEN BOOLEAN ELSE {FALSE}) :
          LET q == IF ticks = 0 THEN 65535 ELSE (ticks - 1) \div 65536
          IN  IF (ticks = 0 /\ ~wraps) \/ ~FitsU16(q)
                 THEN /\ tpc' = "panicked"
                      /\ UNCHANGED <<psc, tim, tlog>>
                 ELSE /\ tpc' = "st_arr"
                      /\ psc' = q
                      /\ tim' = [tim EXCEPT !.psc = q]
                      /\ TWrite("TIM_PSC", q)
    /\ UNCHANGED <<tim_id, pclk, timeout, count, ticks>>
    /\ TimerFrame

\* let arr = u16(ticks / u32(psc + 1)).unwrap(); arr <- arr
\* (psc + 1 on u16 with psc = 65535 panics or wraps to 0, and then the
\* division panics; unwrap panics when the quotient is above 65535)
Start_Arr ==
    /\ tpc = "st_arr"
    /\ IF psc < 65535 /\ FitsU16(ticks \div (psc + 1))
          THEN /\ tpc' = "st_enable"
               /\ tim' = [tim EXCEPT !.arr = ticks \div (psc + 1)]
               /\ TWrite("TIM_ARR", ticks \div (psc + 1))
          ELSE /\ tpc' = "panicked"
               /\ UNCHANGED <<tim, tlog>>
    /\ UNCHANGED <<tim_id, pclk, timeout, count, ticks, psc>>
    /\ TimerFrame

\* cr1.cen <- 1
Start_Enable ==
    /\ TGoto("st_enable", "running")
    /\ tim' = [tim EXCEPT !.cen = TRUE]
    /\ TWrite("TIM_CR1.CEN", 1)
    /\ UNCHANGED <<tim_id, pclk, timeout, count, ticks, psc>>
    /\ TimerFrame

\* the enabled counter has counted
HwTimCount ==
    /\ tim.cen /\ tim.cnt = 0
    /\ tim' = [tim EXCEPT !.cnt = 1]
    /\ UNCHANGED <<tim_id, tpc, pclk, timeout, count, ticks, psc, tlog>>
    /\ TimerFrame

NextTimer ==
    \/ TimerNew
    \/ StartCall
    \/ Start_Pause
    \/ Start_ResetCnt
    \/ Start_Ticks
    \/ Start_Psc
    \/ Start_Arr
    \/ Start_Enable
    \/ HwTimCount

InitTimer ==
    /\ RccAtEntry(Word(0, 0), 0,
                  [hsi |-> Word(65535, 65535), bgp |-> Word(65535, 65535),
                   ldo |-> Word(65535, 65535), lpldo |-> Word(65535, 65535)])
    /\ AdcNew
    /\ TimerNone
    /\ SerialNew

SpecTimer == InitTimer /\ [][NextTimer]_vars

\* the position of the only write of val to reg in the timer's log (0: none)
TWriteAt(reg, val) ==
    LET I == {i \in DOMAIN tlog : tlog[i] = <<"w", reg, val>>}
    IN  IF Cardinality(I) = 1 THEN CHOOSE i \in I : TRUE ELSE 0

\* C24: start never aborts when ticks = pclk / f >= 1, and then programs
\* psc = (ticks - 1) / 65536 and arr = ticks / (psc + 1), both within 16 bits,
\* also when ticks is a multiple of 65536; the counter is disabled and reset
\* before PSC and ARR are written and enabled only after both.
C24_TimerStartFits ==
    /\ tpc = "panicked" => (count = 0 \/ pclk \div count = 0)
    /\ tpc \in {"st_enable", "running"} =>
          /\ ticks = pclk \div count /\ ticks >= 1
          /\ tim.psc = (ticks - 1) \div 65536 /\ tim.psc \in 0..65535
          /\ tim.arr = ticks \div (tim.psc + 1) /\ tim.arr \in 0..65535
          /\ 0 < TWriteAt("TIM_CR1.CEN", 0)
          /\ TWriteAt("TIM_CR1.CEN", 0) < TWriteAt("TIM_CNT", 0)
          /\ TWriteAt("TIM_CNT", 0) < TWriteAt("TIM_PSC", tim.psc)
          /\ TWriteAt("TIM_PSC", tim.psc) < TWriteAt("TIM_ARR", tim.arr)
    /\ tpc = "running" =>
          /\ TWriteAt("TIM_ARR", tim.arr) < TWriteAt("TIM_CR1.CEN", 1)
          /\ TWriteAt("TIM_CR1.CEN", 1) = Len(tlog)
    /\ tpc \in {"st_reset", "st_ticks", "st_psc", "st_arr", "st_enable"} => ~tim.cen

-----------------------------------------------------------------------------
(* serial.rs: embedded_hal_nb::serial::Read::read for Serial *)

\* the bytes the line delivers
Bytes == {0, 65, 255}

ErrorFlags == {"pe", "fe", "nf", "ore"}

\* the status bits of a status word
FlagsOf(u) == [pe |-> u.pe, fe |-> u.fe, nf |-> u.nf, ore |-> u.ore, rxne |-> u.rxne]

\* a read that answers a waiting byte before it looks at the error flags
ReadOutcome_DataFirst(status, data) ==
    IF status.rxne THEN <<"Ok", data>>
    ELSE IF status.pe THEN <<"Other", "Parity">>
    ELSE IF status.fe THEN <<"Other", "FrameFormat">>
    ELSE IF status.nf THEN <<"Other", "Noise">>
    ELSE IF status.ore THEN <<"Other", "Overrun">>
    ELSE <<"WouldBlock">>

\* the if / else if chain of read on the status word it read
ReadOutcome(status, data) ==
    CASE status.pe -> <<"Other", "Parity">>
      [] ~status.pe /\ status.fe -> <<"Other", "FrameFormat">>
      [] ~status.pe /\ ~status.fe /\ status.nf -> <<"Other", "Noise">>
      [] ~status.pe /\ ~status.fe /\ ~status.nf /\ status.ore -> <<"Other", "Overrun">>
      [] ~status.pe /\ ~status.fe /\ ~status.nf /\ ~status.ore /\ status.rxne ->
            <<"Ok", data>>
      [] OTHER -> <<"WouldBlock">>

SerialFrame == UNCHANGED <<rccVars, adcVars, timVars>>

\* Serial::read: one read of ISR; RDR is read on the Ok arm only (which
\* clears RXNE in the peripheral)
SerialRead ==
    /\ isr' = FlagsOf(uart)
    /\ rx' = ReadOutcome(FlagsOf(uart), uart.rdr)
    /\ uart' = IF ReadOutcome(FlagsOf(uart), uart.rdr)[1] = "Ok"
                  THEN [uart EXCEPT !.rxne = FALSE]
                  ELSE uart
    /\ rx_seq' = 1 - rx_seq
    /\ SerialFrame

\* a byte arrives: it is latched if the data register is free, and sets the
\* overrun flag otherwise
HwReceive ==
    \E b \in Bytes :
        /\ uart' = IF uart.rxne THEN [uart EXCEPT !.ore = TRUE]
                                ELSE [uart EXCEPT !.rxne = TRUE, !.rdr = b]
        /\ uart' # uart
        /\ UNCHANGED <<isr, rx, rx_seq>>
        /\ SerialFrame

\* the receiver detects a parity, framing or noise error
HwLineError ==
    \E f \in {"pe", "fe", "nf"} :
        /\ ~uart[f]
        /\ uart' = [uart EXCEPT ![f] = TRUE]
        /\ UNCHANGED <<isr, rx, rx_seq>>
        /\ SerialFrame

\* an error flag is cleared through the peripheral's clear register, which
\* Serial never writes
FlagCleared ==
    \E f \in ErrorFlags :
        /\ uart[f]
        /\ uart' = [uart EXCEPT ![f] = FALSE]
        /\ UNCHANGED <<isr, rx, rx_seq>>
        /\ SerialFrame

NextSerial ==
    \/ SerialRead
    \/ HwReceive
    \/ HwLineError
    \/ FlagCleared

InitSerial ==
    /\ RccAtEntry(Word(0, 0), 0,
                  [hsi |-> Word(65535, 65535), bgp |-> Word(65535, 65535),
                   ldo |-> Word(65535, 65535), lpldo |-> Word(65535, 65535)])
    /\ AdcNew
    /\ TimerNone
    /\ SerialNew

SpecSerial == InitSerial /\ [][NextSerial]_vars

\* the error of highest priority among the flags set in a status word
HighestError(status) ==
    IF status.pe THEN "Parity"
    ELSE IF status.fe THEN "FrameFormat"
    ELSE IF status.nf THEN "Noise"
    ELSE "Overrun"

AnyError(status) == status.pe \/ status.fe \/ status.nf \/ status.ore

\* what the last read returned agrees with the status word it read
ReadResultRight ==
    rx # <<"none">> =>
        /\ rx[1] = "Ok" <=> (isr.rxne /\ ~AnyError(isr))
        /\ rx[1] = "Other" <=> AnyError(isr)
        /\ rx[1] = "Other" => rx[2] = HighestError(isr)
        /\ rx[1] = "WouldBlock" <=> (~isr.rxne /\ ~AnyError(isr))
        /\ rx[1] = "Ok" => rx[2] \in Bytes

\* a step of read: it answers on the flags as they are; on an error or
\* WouldBlock it changes nothing in the peripheral; on Ok it takes the byte of
\* the data register; an error answered before is answered again when the
\* flags have not changed since
ReadStepRight ==
    rx_seq' # rx_seq =>
        /\ isr' = FlagsOf(uart)
        /\ rx'[1] # "Ok" => uart' = uart
        /\ rx'[1] = "Ok" => rx'[2] = uart.rdr /\ uart' = [uart EXCEPT !.rxne = FALSE]
        /\ (rx[1] = "Other" /\ FlagsOf(uart) = isr) => rx' = rx
        /\ (rx[1] = "Other" /\ AnyError(uart)) => rx'[1] = "Other"

=============================================================================
